---------------------------- MODULE Spec2Model ----------------------------
(***************************************************************************)
(* A model of photosort: src/src/main.rs (main, copy_files, get_file_date, *)
(* get_target_path) and src/src/lib.rs (Summary).                          *)
(*                                                                         *)
(* The file system is modelled as a map from destination paths to file     *)
(* contents (a sequence of bytes) plus the set of directories created      *)
(* under the target.  A path is the sequence of its components.  Every     *)
(* I/O call of the code can fail; which calls fail while one entry is      *)
(* handled is the set of "faults" of that entry.  Writes to the standard   *)
(* error stream (eprintln!) are taken to succeed.                          *)
(***************************************************************************)
EXTENDS Integers, Sequences, FiniteSets, TLC

(***************************************************************************)
(* Bounds of the model.                                                    *)
(***************************************************************************)
\* the number of regular files in the source tree
MaxFiles == 2
\* how many times the program is started on the same (source, target)
MaxRuns == 2
\* how many I/O calls fail in one behaviour
MaxFaults == 2
\* how many mark_* calls a behaviour of the Summary API specification makes
MaxMarks == 4
\* the largest number of files of a source tree whose files all collide
MaxColliding == 3

(***************************************************************************)
(* Dates.  chrono's NaiveDate is a triple (year, month, day).              *)
(***************************************************************************)
NaiveDate(y, m, d) == [year |-> y, month |-> m, day |-> d]

IsLeapYear(y) == (y % 4 = 0 /\ y % 100 # 0) \/ y % 400 = 0

DaysInMonth(y, m) ==
    CASE m \in {1, 3, 5, 7, 8, 10, 12} -> 31
      [] m \in {4, 6, 9, 11} -> 30
      [] m = 2 -> IF IsLeapYear(y) THEN 29 ELSE 28
      [] OTHER -> 0

\* SystemTime -> DateTime<Utc> -> (year, month, day): the civil date of the
\* day that holds second `secs` of the Unix epoch.
UtcDate(secs) ==
    LET z    == (secs \div 86400) + 719468
        era  == z \div 146097
        doe  == z - era * 146097
        yoe  == (doe - doe \div 1460 + doe \div 36524 - doe \div 146096) \div 365
        doy  == doe - (365 * yoe + yoe \div 4 - yoe \div 100)
        mp   == (5 * doy + 2) \div 153
        d    == doy - (153 * mp + 2) \div 5 + 1
        m    == IF mp < 10 THEN mp + 3 ELSE mp - 9
        y    == yoe + era * 400 + (IF m <= 2 THEN 1 ELSE 0)
    IN  NaiveDate(y, m, d)

\* NaiveDate::parse_from_str(value, "%Y-%m-%d %H:%M:%S"): the fields are
\* range-checked, the date must exist, the time of day is dropped.
ParseExifDate(v) ==
    IF /\ v.month \in 1..12
       /\ v.day \in 1..DaysInMonth(v.year, v.month)
       /\ v.hour \in 0..23 /\ v.minute \in 0..59 /\ v.second \in 0..60
    THEN [ok |-> TRUE, date |-> NaiveDate(v.year, v.month, v.day)]
    ELSE [ok |-> FALSE]

(***************************************************************************)
(* Text.  Integer::to_string, Month::name and to_ascii_lowercase work on   *)
(* characters, so a number's text is the sequence of its digits and an     *)
(* extension the sequence of its letters.                                  *)
(***************************************************************************)
Digit(n) == <<"0", "1", "2", "3", "4", "5", "6", "7", "8", "9">>[n + 1]

RECURSIVE to_string(_)
to_string(n) ==
    IF n < 0 THEN <<"-">> \o to_string(0 - n)
    ELSE IF n < 10 THEN <<Digit(n)>>
    ELSE to_string(n \div 10) \o <<Digit(n % 10)>>

MonthNames ==
    <<"January", "February", "March", "April", "May", "June", "July",
      "August", "September", "October", "November", "December">>

\* Month::from_u32(m).unwrap().name()
MonthName(m) == MonthNames[m]

UpperCase == <<"A", "B", "C", "D", "E", "F", "G", "H", "I", "J", "K", "L", "M",
               "N", "O", "P", "Q", "R", "S", "T", "U", "V", "W", "X", "Y", "Z">>
LowerCase == <<"a", "b", "c", "d", "e", "f", "g", "h", "i", "j", "k", "l", "m",
               "n", "o", "p", "q", "r", "s", "t", "u", "v", "w", "x", "y", "z">>

ToAsciiLowerChar(c) ==
    IF \E i \in 1..26 : UpperCase[i] = c
    THEN LowerCase[CHOOSE i \in 1..26 : UpperCase[i] = c]
    ELSE c

to_ascii_lowercase(s) == [i \in 1..Len(s) |-> ToAsciiLowerChar(s[i])]

(***************************************************************************)
(* Files.  A file name is a stem and an extension (<<>>: none); a source   *)
(* file has a name, an embedded metadata container, a modification time    *)
(* (seconds of the Unix epoch) and its bytes.                              *)
(***************************************************************************)
FileName(stem, ext) == [stem |-> stem, ext |-> ext]

EXIF_COMPATIBLE_EXTENSIONS == {<<"j", "p", "g">>, <<"j", "p", "e", "g">>}

\* a comparison of the extension as it is spelled
exif_compatible_extension_exact(file_name) ==
    file_name.ext \in EXIF_COMPATIBLE_EXTENSIONS

\* Path::extension() is None for a name without one
exif_compatible_extension(file_name) ==
    /\ file_name.ext # <<>>
    /\ \E e \in EXIF_COMPATIBLE_EXTENSIONS : e = to_ascii_lowercase(file_name.ext)

\* the value of the DateTimeOriginal field as display_value() prints it
ExifValue(y, m, d, hh, mm, ss) ==
    [year |-> y, month |-> m, day |-> d, hour |-> hh, minute |-> mm, second |-> ss]

\* an embedded metadata container: whether exif::Reader can read it, and
\* its DateTimeOriginal fields (none or one)
Container(readable, fields) == [readable |-> readable, fields |-> fields]
NoContainer == Container(FALSE, <<>>)
NoField == Container(TRUE, <<>>)

get_date_from_exif(f) ==
    IF ~f.exif.readable THEN [ok |-> FALSE]
    ELSE IF f.exif.fields = <<>> THEN [ok |-> FALSE]
    ELSE ParseExifDate(f.exif.fields[1])

\* entry.metadata()?.modified()? fails under the fault "mtime"
get_date_from_file(f, faults) ==
    IF "mtime" \in faults THEN [ok |-> FALSE]
    ELSE [ok |-> TRUE, date |-> UtcDate(f.mtime)]

\* a date resolution that gives up when the embedded date cannot be read
get_file_date_no_fallback(f, faults) ==
    IF exif_compatible_extension(f.name)
    THEN get_date_from_exif(f)
    ELSE get_date_from_file(f, faults)

get_file_date(f, faults) ==
    IF exif_compatible_extension(f.name) /\ get_date_from_exif(f).ok
    THEN get_date_from_exif(f)
    ELSE get_date_from_file(f, faults)

\* a planner that leaves the day out of the path
get_target_path_no_day(file_name, file_date, target_root) ==
    <<target_root, to_string(file_date.year), MonthName(file_date.month),
      file_name>>

get_target_path(file_name, file_date, target_root) ==
    <<target_root, to_string(file_date.year), MonthName(file_date.month),
      to_string(file_date.day), file_name>>

\* Path::parent() and the chain of directories create_dir_all makes
Parent(path) == SubSeq(path, 1, Len(path) - 1)
DirChain(path) == {SubSeq(path, 1, k) : k \in 2..Len(path)}


(***************************************************************************)
(* Summary (lib.rs).                                                       *)
(***************************************************************************)
\* Summary::init(): Default::default()
SummaryInit ==
    [scan_error_count |-> 0, error_count |-> 0, skipped_count |-> 0,
     duplicate_count |-> 0, exif_error_count |-> 0, copy_count |-> 0,
     copied_bytes |-> 0, duration |-> 0,
     errored_files |-> <<>>, duplicate_files |-> <<>>,
     exif_errored_files |-> <<>>]

mark_scan_error(s) == [s EXCEPT !.scan_error_count = @ + 1]

\* a mark_error that puts the path in front of the list
mark_error_in_front(s, path) ==
    [s EXCEPT !.error_count = @ + 1, !.errored_files = <<path>> \o @]

mark_error(s, path) ==
    [s EXCEPT !.error_count = @ + 1, !.errored_files = Append(@, path)]

mark_skipped(s) == [s EXCEPT !.skipped_count = @ + 1]

\* a mark_duplicate that lists the path with the files that were not copied
mark_duplicate_as_errored(s, path) ==
    [s EXCEPT !.duplicate_count = @ + 1, !.errored_files = Append(@, path)]

mark_duplicate(s, path) ==
    [s EXCEPT !.duplicate_count = @ + 1, !.duplicate_files = Append(@, path)]

\* a mark_exif_error that lists the path and does not count it
mark_exif_error_uncounted(s, path) ==
    [s EXCEPT !.exif_errored_files = Append(@, path)]

mark_exif_error(s, path) ==
    [s EXCEPT !.exif_error_count = @ + 1, !.exif_errored_files = Append(@, path)]

mark_copied(s, len) ==
    [s EXCEPT !.copy_count = @ + 1, !.copied_bytes = @ + len]

set_duration(s, duration) == [s EXCEPT !.duration = duration]

\* one line of the report: the text before the number, the number, the text
\* after it (colours left out); a path line holds the path
Line(pre, n, post) == [pre |-> pre, n |-> n, post |-> post]
PathLines(paths) == [i \in 1..Len(paths) |-> [path |-> paths[i]]]

\* the two lines display() always writes after the leading "\n"
HeaderLines(s) ==
    <<[blank |-> TRUE],
      [pre |-> "Completed in", duration |-> s.duration],
      [pre |-> "Copied", n |-> s.copy_count, post |-> "files totalling",
       bytes |-> s.copied_bytes]>>

SkippedBlock(s) ==
    IF s.skipped_count > 0
    THEN <<Line("Skipped copying", s.skipped_count,
                "files since they were already present at the target")>>
    ELSE <<>>

ExifErrorBlock(s) ==
    IF s.exif_error_count > 0
    THEN <<Line("Error reading the exif data for", s.exif_error_count,
                "files. They were copied using the file modified time - ")>>
         \o PathLines(s.exif_errored_files)
    ELSE <<>>

DuplicateBlock(s) ==
    IF s.duplicate_count > 0
    THEN <<Line("Skipped copying", s.duplicate_count,
                "files since they were present at the target but was of a different size - ")>>
         \o PathLines(s.duplicate_files)
    ELSE <<>>

ScanErrorBlockAlways(s) ==
    <<Line("Failed to scan", s.scan_error_count, "files.")>>

ScanErrorBlock(s) ==
    IF s.scan_error_count > 0
    THEN <<Line("Failed to scan", s.scan_error_count, "files.")>>
    ELSE <<>>

ErrorBlock(s) ==
    IF s.error_count > 0
    THEN <<Line("Failed to copy", s.error_count,
                "files. The following files were not copied - ")>>
         \o PathLines(s.errored_files)
    ELSE <<>>

\* Summary::display(): the report as the sequence of its lines
display(s) ==
    HeaderLines(s) \o SkippedBlock(s) \o ExifErrorBlock(s) \o DuplicateBlock(s)
    \o ScanErrorBlock(s) \o ErrorBlock(s)

(***************************************************************************)
(* The walk.  WalkDir yields the root directory, then the files: the first *)
(* file lies in the root, every later file in a sub-directory of its own,  *)
(* which is yielded before it.                                             *)
(***************************************************************************)
SourceRoot == "source"
TargetRoot == "target"
SubDirNames == <<"sub1", "sub2", "sub3", "sub4">>

DirEntry(path) == [is_dir |-> TRUE, path |-> path]
FileEntry(path, f) == [is_dir |-> FALSE, path |-> path, file |-> f]

RECURSIVE Children(_, _)
Children(fs, i) ==
    IF i > Len(fs) THEN <<>>
    ELSE (IF i = 1
          THEN <<FileEntry(<<SourceRoot, fs[1].name>>, fs[1])>>
          ELSE <<DirEntry(<<SourceRoot, SubDirNames[i]>>),
                 FileEntry(<<SourceRoot, SubDirNames[i], fs[i].name>>, fs[i])>>)
         \o Children(fs, i + 1)

WalkDir(fs) == <<DirEntry(<<SourceRoot>>)>> \o Children(fs, 1)

(***************************************************************************)
(* One iteration of the loop of copy_files.  `st` holds the target's       *)
(* files, the directories made and the summary; `faults` names the I/O     *)
(* calls that fail while this entry is handled:                            *)
(*   walk     WalkDir yields Err for the entry                             *)
(*   mtime    entry.metadata() or .modified() fails in get_date_from_file  *)
(*   exists   target_path.exists() cannot stat the path and returns false  *)
(*   srcstat  entry.metadata() fails;  dststat  target_path.metadata()     *)
(*   mkdir    fs::create_dir_all fails                                     *)
(*   copy     fs::copy fails before it opens the destination               *)
(*   partial  fs::copy fails after it created or truncated the destination *)
(*   stdout   writeln!(lock, ..) fails, and .expect() panics               *)
(* The result adds what the iteration did: its classification `cls`, the   *)
(* Summary calls it made, whether it panicked, the faults it met.          *)
(***************************************************************************)
Faults == {"walk", "mtime", "exists", "srcstat", "dststat", "mkdir", "copy",
           "partial", "stdout"}

Result(st, cls, calls, met) ==
    [target |-> st.target, dirs |-> st.dirs, summary |-> st.summary,
     cls |-> cls, calls |-> calls, panicked |-> FALSE, met |-> met]

\* a placement that copies again a file that is already at the target
PlaceExistingRecopy(st, e, target_path, faults) ==
    IF Len(e.file.data) = Len(st.target[target_path])
    THEN Result([st EXCEPT !.target = (target_path :> e.file.data) @@ @,
                           !.summary = mark_copied(@, Len(e.file.data))],
                "copied", <<"mark_copied">>, {})
    ELSE Result([st EXCEPT !.summary = mark_duplicate(@, e.path)],
                "duplicate", <<"mark_duplicate">>, {})

\* a placement that copies over a destination of another size
PlaceExistingOverwrite(st, e, target_path, faults) ==
    IF Len(e.file.data) = Len(st.target[target_path])
    THEN Result([st EXCEPT !.summary = mark_skipped(@)], "skipped",
                <<"mark_skipped">>, {})
    ELSE Result([st EXCEPT !.target = (target_path :> e.file.data) @@ @,
                           !.summary = mark_copied(@, Len(e.file.data))],
                "copied", <<"mark_copied">>, {})

\* a placement that takes every file found at the target for the same file
PlaceExistingNoSizeCheck(st, e, target_path, faults) ==
    Result([st EXCEPT !.summary = mark_skipped(@)], "skipped",
           <<"mark_skipped">>, {})

\* the branch of copy_files taken when target_path.exists()
PlaceExisting(st, e, target_path, faults) ==
    IF "srcstat" \in faults
    THEN Result([st EXCEPT !.summary = mark_error(@, e.path)], "error",
                <<"mark_error">>, {"srcstat"})
    ELSE IF "dststat" \in faults
    THEN Result([st EXCEPT !.summary = mark_error(@, e.path)], "error",
                <<"mark_error">>, {"dststat"})
    ELSE LET source_len == Len(e.file.data)
             target_len == Len(st.target[target_path])
         IN  IF source_len = target_len
             THEN IF "stdout" \in faults
                  THEN [Result(st, "panic", <<>>, {"stdout"})
                           EXCEPT !.panicked = TRUE]
                  ELSE Result([st EXCEPT !.summary = mark_skipped(@)],
                              "skipped", <<"mark_skipped">>, {})
             ELSE Result([st EXCEPT !.summary = mark_duplicate(@, e.path)],
                         "duplicate", <<"mark_duplicate">>, {})

\* the rest of the loop body: create_dir_all, then fs::copy
CopyNew(st, e, target_path, faults) ==
    IF "mkdir" \in faults
    THEN Result([st EXCEPT !.summary = mark_error(@, e.path)], "error",
                <<"mark_error">>, {"mkdir"})
    ELSE LET made == [st EXCEPT !.dirs = @ \cup DirChain(Parent(target_path))]
         IN  IF "copy" \in faults
             THEN Result([made EXCEPT !.summary = mark_error(@, e.path)],
                         "error", <<"mark_error">>, {"copy"})
             ELSE IF "partial" \in faults
             THEN Result([made EXCEPT
                            !.target = (target_path :> <<>>) @@ @,
                            !.summary = mark_error(@, e.path)],
                         "error", <<"mark_error">>, {"partial"})
             ELSE LET copied == [made EXCEPT
                                   !.target = (target_path :> e.file.data) @@ @]
                  IN  IF "stdout" \in faults
                      THEN [Result(copied, "panic", <<>>, {"stdout"})
                               EXCEPT !.panicked = TRUE]
                      ELSE Result([copied EXCEPT !.summary =
                                      mark_copied(@, Len(e.file.data))],
                                  "copied", <<"mark_copied">>, {})

\* what one entry's walk error or date error leaves, else its placement
HandleEntry(st, e, faults) ==
    IF "walk" \in faults
    THEN Result([st EXCEPT !.summary = mark_scan_error(@)], "scan_error",
                <<"mark_scan_error">>, {"walk"})
    ELSE IF e.is_dir
    THEN Result(st, "dir", <<>>, {})
    ELSE LET file_date == get_file_date(e.file, faults)
         IN  IF ~file_date.ok
             THEN Result([st EXCEPT !.summary = mark_error(@, e.path)],
                         "error", <<"mark_error">>, faults \cap {"mtime"})
             ELSE LET target_path ==
                          get_target_path(e.file.name, file_date.date, TargetRoot)
                      present == target_path \in DOMAIN st.target
                      exists == present /\ "exists" \notin faults
                      placed == IF exists
                                THEN PlaceExisting(st, e, target_path, faults)
                                ELSE CopyNew(st, e, target_path, faults)
                  IN  [placed EXCEPT !.met =
                          @ \cup (IF present THEN faults \cap {"exists"} ELSE {})]


(***************************************************************************)
(* The state.                                                              *)
(***************************************************************************)
VARIABLES
    source_kind,  \* what --source-path names: "missing", "file" or "dir"
    target_kind,  \* what --target-path names
    files,        \* the regular files of the source tree, in walk order
    target,       \* the files under the target: path -> bytes
    dirs,         \* the directories made under the target
    pc,           \* "start", "walk", "done" (copy_files returned), "exited"
    exit_code,    \* the process's exit status once it exited, else -1
    pos,          \* the number of the next entry of the walk
    summary,      \* the Summary of copy_files
    rendered,     \* how many times main printed the report
    log,          \* this run: what happened to each entry handled so far
    calls,        \* this run: the Summary operations called, in order
    start,        \* this run: the target's files when the run started
    run,          \* the number of this run
    history,      \* the runs before this one: their summary and log
    injected,     \* how many I/O calls have failed so far
    planned       \* the path planner's last input and output

vars == <<source_kind, target_kind, files, target, dirs, pc, exit_code, pos,
          summary, rendered, log, calls, start, run, history, injected,
          planned>>

(***************************************************************************)
(* The inputs the model draws from.                                        *)
(***************************************************************************)
Kinds == {"missing", "file", "dir"}

\* 2008-05-30 15:56:01 UTC and 2022-01-06 19:02:59 UTC
MTimes == {1212162961, 1641495779}

Contents == {<<>>, <<1>>, <<2>>}

JpgName == FileName("a", <<"J", "P", "G">>)
TxtName == FileName("a", <<"t", "x", "t">>)

GoodExif == Container(TRUE, <<ExifValue(2008, 5, 30, 15, 56, 1)>>)
BadExif == Container(TRUE, <<ExifValue(0, 0, 0, 0, 0, 0)>>)

File(name, exif, mtime, data) ==
    [name |-> name, exif |-> exif, mtime |-> mtime, data |-> data]

\* the files a source tree is made of: jpgs with a date, jpgs without the
\* field, a jpg without a container, a jpg with an unparsable date, and
\* files that are no jpg but hold a container with a date
FileUniverse ==
    {File(JpgName, GoodExif, 1641495779, d) : d \in Contents}
    \cup {File(JpgName, NoField, t, d) : t \in MTimes, d \in Contents}
    \cup {File(JpgName, NoContainer, 1641495779, <<1>>),
          File(JpgName, BadExif, 1641495779, <<1>>)}
    \cup {File(TxtName, GoodExif, t, d) : t \in MTimes, d \in Contents}

RECURSIVE SeqsUpTo(_, _)
SeqsUpTo(S, n) ==
    IF n = 0 THEN {<<>>}
    ELSE LET shorter == SeqsUpTo(S, n - 1)
         IN  shorter \cup {Append(q, x) : q \in {r \in shorter : Len(r) = n - 1}, x \in S}

\* the faults of one entry, when n more I/O calls may fail
Outcomes(n) == {F \in SUBSET Faults : Cardinality(F) <= n}

\* now.elapsed(), in some unit
Durations == {1}

EmptyTarget == [p \in {} |-> <<>>]

(***************************************************************************)
(* The program.                                                            *)
(***************************************************************************)
Init ==
    /\ source_kind \in Kinds
    /\ target_kind \in Kinds
    /\ files \in (IF source_kind = "dir" /\ target_kind = "dir" THEN SeqsUpTo(FileUniverse, MaxFiles)
                  ELSE {<<>>})
    /\ target = EmptyTarget
    /\ dirs = {}
    /\ pc = "start"
    /\ exit_code = -1
    /\ pos = 1
    /\ summary = SummaryInit
    /\ rendered = 0
    /\ log = <<>>
    /\ calls = <<>>
    /\ start = EmptyTarget
    /\ run = 1
    /\ history = <<>>
    /\ injected = 0
    /\ planned = <<>>

\* Path::exists() && Path::is_dir()
ValidDir(kind) == kind # "missing" /\ kind = "dir"

\* main: the two checks, then copy_files starts with Summary::init()
Validate ==
    /\ pc = "start"
    /\ IF ~ValidDir(source_kind) \/ ~ValidDir(target_kind)
       THEN /\ pc' = "exited"
            /\ exit_code' = 1
            /\ UNCHANGED <<summary, start>>
       ELSE /\ pc' = "walk"
            /\ summary' = SummaryInit
            /\ start' = target
            /\ UNCHANGED exit_code
    /\ UNCHANGED <<source_kind, target_kind, files, target, dirs, pos, rendered,
                   log, calls, run, history, injected, planned>>

\* a loop that an error of one entry ends
ContinuesUnlessError(r) == ~r.panicked /\ r.cls # "error"

\* whether the walk goes on after an iteration: only a panic ends it
Continues(r) == ~r.panicked

\* copy_files: one iteration of the loop
Step ==
    /\ pc = "walk"
    /\ pos <= Len(WalkDir(files))
    /\ \E faults \in Outcomes(MaxFaults - injected) :
       \E r \in {HandleEntry([target |-> target, dirs |-> dirs,
                              summary |-> summary],
                             WalkDir(files)[pos], faults)} :
              /\ r.met = faults
              /\ target' = r.target
              /\ dirs' = r.dirs
              /\ summary' = r.summary
              /\ log' = Append(log, [cls |-> r.cls, faults |-> faults])
              /\ calls' = calls \o r.calls
              /\ pos' = pos + 1
              /\ injected' = injected + Cardinality(faults)
              /\ IF Continues(r)
                 THEN UNCHANGED <<pc, exit_code>>
                 ELSE pc' = "exited" /\ exit_code' = 101
    /\ UNCHANGED <<source_kind, target_kind, files, rendered, start, run,
                   history, planned>>

\* copy_files: the walk is over; summary.set_duration(now.elapsed())
Finish ==
    /\ pc = "walk"
    /\ pos > Len(WalkDir(files))
    /\ \E elapsed \in Durations : summary' = set_duration(summary, elapsed)
    /\ calls' = Append(calls, "set_duration")
    /\ pc' = "done"
    /\ UNCHANGED <<source_kind, target_kind, files, target, dirs, exit_code, pos,
                   rendered, log, start, run, history, injected, planned>>

\* main: println!("{}", stats.display()), which panics when the write fails
Render ==
    /\ pc = "done"
    /\ pc' = "exited"
    /\ \E written \in {TRUE} \cup {FALSE : n \in 1..(MaxFaults - injected)} :
          IF written
          THEN rendered' = rendered + 1 /\ exit_code' = 0 /\ UNCHANGED injected
          ELSE rendered' = rendered /\ exit_code' = 101
               /\ injected' = injected + 1
    /\ UNCHANGED <<source_kind, target_kind, files, target, dirs, pos, summary,
                   log, calls, start, run, history, planned>>

\* the same command is started again; the source tree is as it was
Rerun ==
    /\ pc = "exited"
    /\ run < MaxRuns
    /\ history' = Append(history, [summary |-> summary, log |-> log])
    /\ run' = run + 1
    /\ pc' = "start"
    /\ exit_code' = -1
    /\ pos' = 1
    /\ summary' = SummaryInit
    /\ rendered' = 0
    /\ log' = <<>>
    /\ calls' = <<>>
    /\ UNCHANGED <<source_kind, target_kind, files, target, dirs, start,
                   injected, planned>>

Next == Validate \/ Step \/ Finish \/ Render \/ Rerun

Spec == Init /\ [][Next]_vars


(***************************************************************************)
(* The Summary on its own: a caller builds a value with a struct literal,  *)
(* as tests.rs does, or from Summary::init() by the mark_* operations.     *)
(***************************************************************************)
ApiPaths == {<<SourceRoot, JpgName>>, <<SourceRoot, TxtName>>}
ApiLists == {<<>>, <<<<SourceRoot, JpgName>>>>}

Idle(at) ==
    /\ source_kind = "dir"
    /\ target_kind = "dir"
    /\ files = <<>>
    /\ target = EmptyTarget
    /\ dirs = {}
    /\ pc = at
    /\ exit_code = -1
    /\ pos = 1
    /\ rendered = 0
    /\ log = <<>>
    /\ start = EmptyTarget
    /\ run = 1
    /\ history = <<>>
    /\ injected = 0

InitSummary ==
    /\ Idle("api")
    /\ summary = SummaryInit
    /\ calls = <<>>
    /\ planned = <<>>

ApiFrame ==
    UNCHANGED <<source_kind, target_kind, files, target, dirs, pc, exit_code,
                pos, rendered, log, start, run, history, injected, planned>>

\* Summary { scan_error_count: .., .. }: every field is public
Literal ==
    /\ calls = <<>>
    /\ summary' \in [scan_error_count : 0..1, error_count : 0..1,
                     skipped_count : 0..1, duplicate_count : 0..1,
                     exif_error_count : 0..1, copy_count : 0..1,
                     copied_bytes : {0}, duration : {0},
                     errored_files : ApiLists, duplicate_files : ApiLists,
                     exif_errored_files : ApiLists]
    /\ calls' = <<"literal">>
    /\ ApiFrame

\* a value built by a literal gets one more operation, one from init() MaxMarks
Call(name, s) ==
    /\ Len(calls) < (IF calls # <<>> /\ calls[1] = "literal" THEN 2 ELSE MaxMarks)
    /\ summary' = s
    /\ calls' = Append(calls, name)
    /\ ApiFrame

MarkScanError == Call("mark_scan_error", mark_scan_error(summary))
MarkError == \E p \in ApiPaths : Call("mark_error", mark_error(summary, p))
MarkSkipped == Call("mark_skipped", mark_skipped(summary))
MarkDuplicate == \E p \in ApiPaths : Call("mark_duplicate", mark_duplicate(summary, p))
MarkExifError == \E p \in ApiPaths : Call("mark_exif_error", mark_exif_error(summary, p))
MarkCopied == \E len \in 0..1 : Call("mark_copied", mark_copied(summary, len))
SetDuration == \E d \in Durations : Call("set_duration", set_duration(summary, d))

NextSummary ==
    \/ Literal
    \/ MarkScanError
    \/ MarkError
    \/ MarkSkipped
    \/ MarkDuplicate
    \/ MarkExifError
    \/ MarkCopied
    \/ SetDuration

SpecSummary == InitSummary /\ [][NextSummary]_vars

(***************************************************************************)
(* The path planner on its own: get_target_path applied to a date, a file  *)
(* name and a target root.                                                 *)
(***************************************************************************)
PlanDates ==
    {NaiveDate(y, m, d) : y \in {2008, 2022}, m \in 1..12, d \in {1, 6, 10, 28}}
PlanNames == {JpgName, TxtName, FileName("b", <<"j", "p", "g">>)}
PlanRoots == {TargetRoot, "backup"}

InitPath ==
    /\ Idle("plan")
    /\ summary = SummaryInit
    /\ calls = <<>>
    /\ planned = <<>>

Plan ==
    /\ pc = "plan"
    /\ \E date \in PlanDates, file_name \in PlanNames, target_root \in PlanRoots :
          planned' = <<[file_date |-> date, file_name |-> file_name,
                        target_root |-> target_root,
                        path |-> get_target_path(file_name, date, target_root)]>>
    /\ UNCHANGED <<source_kind, target_kind, files, target, dirs, pc, exit_code,
                   pos, summary, rendered, log, calls, start, run, history,
                   injected>>

NextPath == Plan

SpecPath == InitPath /\ [][NextPath]_vars


(***************************************************************************)
(* The report, read back: the sections of a rendered report.               *)
(***************************************************************************)
\* the heading of each counter's section: the text before and after the number
Heading(counter) ==
    CASE counter = "skipped" ->
           <<"Skipped copying", "files since they were already present at the target">>
      [] counter = "exif_error" ->
           <<"Error reading the exif data for",
             "files. They were copied using the file modified time - ">>
      [] counter = "duplicate" ->
           <<"Skipped copying",
             "files since they were present at the target but was of a different size - ">>
      [] counter = "scan_error" -> <<"Failed to scan", "files.">>
      [] counter = "error" ->
           <<"Failed to copy", "files. The following files were not copied - ">>
      [] counter = "copy" -> <<"Copied", "files totalling">>

CounterOf(s, counter) ==
    CASE counter = "skipped" -> s.skipped_count
      [] counter = "exif_error" -> s.exif_error_count
      [] counter = "duplicate" -> s.duplicate_count
      [] counter = "scan_error" -> s.scan_error_count
      [] counter = "error" -> s.error_count
      [] counter = "copy" -> s.copy_count

\* the paths a counter's section lists
ListOf(s, counter) ==
    CASE counter = "exif_error" -> s.exif_errored_files
      [] counter = "duplicate" -> s.duplicate_files
      [] counter = "error" -> s.errored_files
      [] OTHER -> <<>>

IsHeading(line, counter) ==
    /\ {"pre", "n", "post"} \subseteq DOMAIN line
    /\ <<line.pre, line.post>> = Heading(counter)

HeadingsAt(out, counter) == {i \in 1..Len(out) : IsHeading(out[i], counter)}
PathLinesAt(out) == {i \in 1..Len(out) : "path" \in DOMAIN out[i]}

\* the section of `counter` is in the report: one heading with the count,
\* followed by the section's paths
Shown(out, s, counter) ==
    /\ Cardinality(HeadingsAt(out, counter)) = 1
    /\ \A i \in HeadingsAt(out, counter) :
          /\ out[i].n = CounterOf(s, counter)
          /\ i + Len(ListOf(s, counter)) <= Len(out)
          /\ \A k \in 1..Len(ListOf(s, counter)) :
                out[i + k] = [path |-> ListOf(s, counter)[k]]

\* nothing of the section is in the report
Suppressed(out, counter) == HeadingsAt(out, counter) = {}

ZeroSuppressed(out, s, counters) ==
    /\ \A c \in counters :
          IF CounterOf(s, c) > 0 THEN Shown(out, s, c) ELSE Suppressed(out, c)
    /\ \A i \in 1..Len(out), c \in counters : IsHeading(out[i], c) => out[i].n > 0

SumLen(s, counters) ==
    (IF "exif_error" \in counters /\ s.exif_error_count > 0
     THEN Len(s.exif_errored_files) ELSE 0)
    + (IF "duplicate" \in counters /\ s.duplicate_count > 0
       THEN Len(s.duplicate_files) ELSE 0)
    + (IF "error" \in counters /\ s.error_count > 0
       THEN Len(s.errored_files) ELSE 0)

SectionCounters == {"scan_error", "error", "skipped", "duplicate", "exif_error"}

\* C8 as stated: display() emits the section of each of the six counters
\* (scan_error, error, skipped, duplicate, exif_error, copy) only when the
\* counter is greater than zero, and never a line that reports 0 files.
C8_ZeroSuppressionAllSix ==
    ZeroSuppressed(display(summary), summary, SectionCounters \cup {"copy"})

\* C8 amended: display() emits the section (heading and path list) of each
\* of the five counters scan_error, error, skipped, duplicate, exif_error
\* exactly when the counter is greater than zero, and no path line outside a
\* shown section; the "Copied <copy_count> files totalling .." line is
\* always emitted, also when copy_count is zero.
C8_ZeroSuppression ==
    LET out == display(summary)
    IN  /\ ZeroSuppressed(out, summary, SectionCounters)
        /\ Cardinality(PathLinesAt(out)) = SumLen(summary, SectionCounters)
        /\ Shown(out, summary, "copy")

\* a literal whose exif_error and scan_error counters are zero, the first
\* with a path in its list, and whose duplicate and error sections show
C8_Witness ==
    /\ summary.exif_error_count = 0
    /\ summary.exif_errored_files # <<>>
    /\ summary.scan_error_count = 0
    /\ summary.copy_count = 0
    /\ summary.duplicate_count > 0
    /\ summary.duplicate_files # <<>>
    /\ summary.error_count > 0
    /\ Len(display(summary)) = 6


(***************************************************************************)
(* Paths, read back.                                                       *)
(***************************************************************************)
DigitValue(c) == CHOOSE n \in 0..9 : Digit(n) = c

\* the number a text of decimal digits denotes
RECURSIVE DecimalValue(_)
DecimalValue(text) ==
    IF Len(text) = 1 THEN DigitValue(text[1])
    ELSE 10 * DecimalValue(SubSeq(text, 1, Len(text) - 1)) + DigitValue(text[Len(text)])

\* a plain decimal integer: digits only, no leading zero
Unpadded(text) ==
    /\ Len(text) >= 1
    /\ \A i \in 1..Len(text) : \E n \in 0..9 : Digit(n) = text[i]
    /\ Len(text) > 1 => text[1] # "0"

FullEnglishMonth(m) ==
    CASE m = 1 -> "January" [] m = 2 -> "February" [] m = 3 -> "March"
      [] m = 4 -> "April" [] m = 5 -> "May" [] m = 6 -> "June"
      [] m = 7 -> "July" [] m = 8 -> "August" [] m = 9 -> "September"
      [] m = 10 -> "October" [] m = 11 -> "November" [] m = 12 -> "December"

\* C9: get_target_path returns target_root/YEAR/MonthName/DAY/file_name,
\* year and day as unpadded decimal integers and the month as its full
\* capitalized English name, and for a fixed target root two inputs that
\* differ in date or in file name yield different paths.
C9_PathPlanner ==
    \A i \in 1..Len(planned) :
       LET in == planned[i]
           path == in.path
       IN  /\ Len(path) = 5
           /\ path[1] = in.target_root
           /\ Unpadded(path[2]) /\ DecimalValue(path[2]) = in.file_date.year
           /\ path[3] = FullEnglishMonth(in.file_date.month)
           /\ Unpadded(path[4]) /\ DecimalValue(path[4]) = in.file_date.day
           /\ path[5] = in.file_name
           /\ \A date \in PlanDates, file_name \in PlanNames :
                 get_target_path(file_name, date, in.target_root) = path
                 => date = in.file_date /\ file_name = in.file_name

\* the planner was applied to 2022-01-06, the date of the tests' files
C9_Witness ==
    /\ planned # <<>>
    /\ planned[1].file_date = NaiveDate(2022, 1, 6)
    /\ planned[1].file_name = TxtName
    /\ planned[1].path =
          <<TargetRoot, <<"2", "0", "2", "2">>, "January", <<"6">>, TxtName>>


(***************************************************************************)
(* A run, read back.                                                       *)
(***************************************************************************)
Walk == WalkDir(files)

\* the loop of copy_files is about to handle entry Walk[pos]
Handling == pc = "walk" /\ pos <= Len(Walk)

\* the destination path copy_files computes for a file whose date resolves
Destination(f) ==
    get_target_path(f.name, get_file_date(f, {}).date, TargetRoot)

\* the faults met by the iteration that made the last log record
LastFaults(l) == l[Len(l)].faults

\* this step is an iteration that handles a file whose walk and date
\* resolution succeeded: the destination path was computed
PlacesFile ==
    /\ Handling
    /\ pos' = pos + 1
    /\ ~Walk[pos].is_dir
    /\ LastFaults(log') \cap {"walk", "mtime"} = {}

C3_SameSizeIsSkipped ==
    [][(/\ PlacesFile
        /\ Destination(Walk[pos].file) \in DOMAIN target
        /\ LastFaults(log') \cap {"exists", "srcstat", "dststat"} = {}
        /\ Len(target[Destination(Walk[pos].file)]) = Len(Walk[pos].file.data))
       => /\ target' = target
          /\ summary' = [summary EXCEPT !.skipped_count = @ + 1]
      ]_vars


\* the entries of a log that are files: neither a directory nor a walk error
FilesIn(l) == {i \in 1..Len(l) : l[i].cls \notin {"dir", "scan_error"}}

FellBack ==
    {i \in 1..Len(log) :
        /\ log[i].cls \notin {"dir", "scan_error"}
        /\ exif_compatible_extension(Walk[i].file.name)
        /\ ~get_date_from_exif(Walk[i].file).ok}

RECURSIVE PathsOf(_, _)
PathsOf(indices, i) ==
    IF i > Len(Walk) THEN <<>>
    ELSE (IF i \in indices THEN <<Walk[i].path>> ELSE <<>>) \o PathsOf(indices, i + 1)

\* C4: every fallback from the embedded date to the modification time is
\* counted: exif_error_count is the number of files that fell back, and
\* exif_errored_files holds the path of each, once, in walk order.
C4_FallbackCounted ==
    pc \in {"walk", "done"}
    => /\ summary.exif_error_count = Cardinality(FellBack)
       /\ summary.exif_errored_files = PathsOf(FellBack, 1)

\* the civil date -> day number of the Unix epoch
DaysFromCivil(date) ==
    LET y   == IF date.month <= 2 THEN date.year - 1 ELSE date.year
        era == y \div 400
        yoe == y - era * 400
        mp  == IF date.month > 2 THEN date.month - 3 ELSE date.month + 9
        doy == (153 * mp + 2) \div 5 + date.day - 1
        doe == yoe * 365 + yoe \div 4 - yoe \div 100 + doy
    IN  era * 146097 + doe - 719468

\* C5: a file with an exif-compatible extension whose embedded date cannot
\* be obtained, and whose modification time is readable, resolves to the UTC
\* date of its modification time, as a file with the same modification time
\* that is no image does; the metadata failure does not classify it error
\* (only a failing stat, create_dir_all or copy does); and when its
\* destination is absent and those calls succeed it is copied there.
C5_FallbackPlaces ==
    [][(/\ PlacesFile
        /\ exif_compatible_extension(Walk[pos].file.name)
        /\ ~get_date_from_exif(Walk[pos].file).ok)
       => LET f == Walk[pos].file
              faults == LastFaults(log')
              resolved == get_file_date(f, faults)
              io == faults \cap {"srcstat", "dststat", "mkdir", "copy", "partial"}
              dest == get_target_path(f.name, resolved.date, TargetRoot)
          IN  /\ resolved.ok
              /\ DaysFromCivil(resolved.date) = f.mtime \div 86400
              /\ resolved.date.day \in 1..DaysInMonth(resolved.date.year, resolved.date.month)
              /\ resolved = get_file_date([f EXCEPT !.name = TxtName], faults)
              /\ io = {} => log'[Len(log')].cls # "error"
              /\ log'[Len(log')].cls = "error" => summary'.errored_files # summary.errored_files
              /\ (dest \notin DOMAIN target /\ io = {})
                 => /\ dest \in DOMAIN target'
                    /\ target'[dest] = f.data
                    /\ Parent(dest) \in dirs'
                    /\ "stdout" \notin faults
                       => /\ log'[Len(log')].cls = "copied"
                          /\ summary' = [summary EXCEPT
                                           !.copy_count = @ + 1,
                                           !.copied_bytes = @ + Len(f.data)]
      ]_vars

\* a jpg without the date field was copied to the day of its modification time
C5_Witness ==
    /\ pc = "walk"
    /\ pos = 3
    /\ files[1] = File(JpgName, NoField, 1641495779, <<1>>)
    /\ log[2].cls = "copied"
    /\ DOMAIN target =
          {<<TargetRoot, <<"2", "0", "2", "2">>, "January", <<"6">>, JpgName>>}
    /\ summary.copy_count = 1

\* both directories given on the command line are directories
Validated == ValidDir(source_kind) /\ ValidDir(target_kind)

\* C7: once the two root directories are validated the run always
\* completes: when the process has exited, every entry of the walk was
\* handled, set_duration was called exactly once, after every mark_*, and
\* the summary was rendered exactly once.
C7_RunCompletes ==
    (pc = "exited" /\ Validated)
    => /\ Len(log) = Len(Walk)
       /\ calls # <<>>
       /\ calls[Len(calls)] = "set_duration"
       /\ Cardinality({i \in 1..Len(calls) : calls[i] = "set_duration"}) = 1
       /\ rendered = 1

\* C10: the process exits with a non-zero status, before any entry is
\* processed, no file written and no summary rendered, when the source or
\* the target is not a directory; otherwise it exits with status zero.
C10_ExitStatus ==
    pc = "exited"
    => IF Validated
       THEN exit_code = 0
       ELSE /\ exit_code > 0
            /\ log = <<>>
            /\ target = start
            /\ dirs = {}
            /\ rendered = 0


(***************************************************************************)
(* A run, replayed: the classifications copy_files gives the entries of    *)
(* the walk from entry i on, under the faults fs[i], fs[i + 1], ..         *)
(***************************************************************************)
RECURSIVE Replay(_, _, _)
Replay(st, i, fs) ==
    IF i > Len(Walk) THEN <<>>
    ELSE LET r == HandleEntry(st, Walk[i], fs[i])
         IN  <<r.cls>>
             \o (IF Continues(r)
                 THEN Replay([target |-> r.target, dirs |-> r.dirs,
                              summary |-> r.summary], i + 1, fs)
                 ELSE [k \in 1..(Len(Walk) - i) |-> "unhandled"])

\* this run as it went: each entry's classification and faults
Classified ==
    [k \in 1..Len(Walk) |-> IF k <= Len(log) THEN log[k].cls ELSE "unhandled"]
FaultsMet ==
    [k \in 1..Len(Walk) |-> IF k <= Len(log) THEN log[k].faults ELSE {}]

\* this run as it would have gone had no I/O call failed for entry i
HadNotFailed(i) ==
    Replay([target |-> start, dirs |-> {}, summary |-> SummaryInit], 1,
           [FaultsMet EXCEPT ![i] = {}])

\* the walk of this run is over: it reached its end, or the process died
RunOver ==
    \/ pc = "done"
    \/ /\ pc = "exited"
       /\ Validated
       /\ calls = <<>> \/ calls[Len(calls)] # "set_duration"

\* handling entry i failed: a walk error, an unreadable modification time, a
\* failing stat, create_dir_all or copy
Failed(i) == FaultsMet[i] # {} /\ "stdout" \notin FaultsMet[i]

\* a later entry resolves to the destination path of entry i
SlotSharedLater(i) ==
    /\ ~Walk[i].is_dir
    /\ \E k \in (i + 1)..Len(Walk) :
          /\ ~Walk[k].is_dir
          /\ Destination(Walk[k].file) = Destination(Walk[i].file)

\* C6 as stated: a failure while handling entry i does not change how any
\* later entry j is handled: each later entry is processed and classified
\* as it would be had entry i not failed.
C6_FailureIsolated ==
    RunOver
    => \A i \in 1..Len(Walk) :
          Failed(i)
          => \A j \in (i + 1)..Len(Walk) : Classified[j] = HadNotFailed(i)[j]

\* C6 amended: a failure while handling entry i does not stop the walk, and
\* when no later entry resolves to the destination path of entry i, each
\* later entry j is processed and classified as it would be had entry i not
\* failed.
C6_FailureIsolatedOffSlot ==
    RunOver
    => /\ Replay([target |-> start, dirs |-> {}, summary |-> SummaryInit], 1,
                 FaultsMet) = Classified
       /\ \A i \in 1..Len(Walk) :
             Failed(i)
             => /\ Len(log) > i \/ i = Len(Walk)
                /\ ~SlotSharedLater(i)
                   => \A j \in (i + 1)..Len(Walk) :
                         Classified[j] = HadNotFailed(i)[j]

\* the copy of the first file failed and the second file, with another
\* destination, was copied
C6_Witness ==
    /\ pc = "done"
    /\ Len(files) = 2
    /\ log[2].cls = "error"
    /\ log[2].faults = {"copy"}
    /\ ~SlotSharedLater(2)
    /\ log[4].cls = "copied"
    /\ HadNotFailed(2)[2] = "copied"

\* the classification of the entry this step handled
LastCls == log'[Len(log')].cls

\* C11: for every entry whose date resolved, a failure of the existence
\* check, of the stat of the source or of the stat of the destination
\* classifies the entry error (error_count + 1, its path appended to
\* errored_files), and no directory is created and no file is written.
C11_StatFailureIsError ==
    [][(/\ PlacesFile
        /\ LastFaults(log') \cap {"exists", "srcstat", "dststat"} # {})
       => /\ LastCls = "error"
          /\ summary' = mark_error(summary, Walk[pos].path)
          /\ dirs' = dirs
          /\ target' = target
      ]_vars

\* the sum of the lengths of the files the entries `indices` of the walk hold
RECURSIVE BytesOf(_, _)
BytesOf(indices, i) ==
    IF i > Len(Walk) THEN 0
    ELSE (IF i \in indices THEN Len(Walk[i].file.data) ELSE 0)
         + BytesOf(indices, i + 1)

\* C12: for an entry whose destination is absent the parent directories are
\* created before the copy is attempted; a failing create_dir_all marks the
\* entry error and nothing is copied; a failing copy marks the entry error;
\* mark_copied is called on copy success and only then, with the bytes
\* copied; when the walk ends copy_count is the number of successful copies
\* and copied_bytes the sum of their lengths.
C12_CopyAccounting ==
    [][/\ (PlacesFile /\ Destination(Walk[pos].file) \notin DOMAIN target)
          => LET f == Walk[pos].file
                 faults == LastFaults(log')
                 dest == Destination(f)
                 failed == faults \cap {"mkdir", "copy", "partial"}
             IN  /\ "mkdir" \in faults
                    => /\ summary' = mark_error(summary, Walk[pos].path)
                       /\ target' = target
                       /\ dirs' = dirs
                 /\ "mkdir" \notin faults
                    => DirChain(Parent(dest)) \subseteq dirs'
                 /\ failed # {}
                    => /\ summary' = mark_error(summary, Walk[pos].path)
                       /\ calls' = Append(calls, "mark_error")
                 /\ failed = {}
                    => /\ target' = (dest :> f.data) @@ target
                       /\ summary' = mark_copied(summary, Len(f.data))
                       /\ calls' = Append(calls, "mark_copied")
       /\ (pc = "walk" /\ pc' = "done")
          => LET copies == {k \in 1..Len(log) : log[k].cls = "copied"}
             IN  /\ summary'.copy_count = Cardinality(copies)
                 /\ summary'.copied_bytes = BytesOf(copies, 1)
      ]_vars

(***************************************************************************)
(* Source trees whose files all resolve to one destination: files named    *)
(* a.JPG of 2008-05-30, by the embedded date or by the modification time.  *)
(***************************************************************************)
CollidingFiles ==
    {File(JpgName, GoodExif, 1641495779, d) : d \in {<<1>>, <<2>>}}
    \cup {File(JpgName, NoField, 1212162961, d) : d \in {<<>>, <<1>>}}

InitCollide ==
    /\ source_kind = "dir"
    /\ target_kind = "dir"
    /\ files \in {q \in SeqsUpTo(CollidingFiles, MaxColliding) : Len(q) >= 2}
    /\ target = EmptyTarget
    /\ dirs = {}
    /\ pc = "start"
    /\ exit_code = -1
    /\ pos = 1
    /\ summary = SummaryInit
    /\ rendered = 0
    /\ log = <<>>
    /\ calls = <<>>
    /\ start = EmptyTarget
    /\ run = 1
    /\ history = <<>>
    /\ injected = 0
    /\ planned = <<>>

SpecCollide == InitCollide /\ [][Next]_vars

\* the entries of the walk, up to entry k, that hold a file with the
\* destination of the file of entry k
SlotMates(k) ==
    {m \in 1..k : ~Walk[m].is_dir
                  /\ Destination(Walk[m].file) = Destination(Walk[k].file)}

\* the first entry in discovery order with the destination of entry k
FirstOfSlot(k) == CHOOSE m \in SlotMates(k) : \A n \in SlotMates(k) : m <= n

\* entry k was handled as the collision rule says
CollisionRule(k) ==
    LET first == FirstOfSlot(k)
        dest == Destination(Walk[k].file)
    IN  /\ dest \in DOMAIN target
        /\ target[dest] = Walk[first].file.data
        /\ log[k].cls =
              IF k = first THEN "copied"
              ELSE IF Len(Walk[k].file.data) = Len(Walk[first].file.data)
              THEN "skipped"
              ELSE "duplicate"

DateExtensions ==
    {<<"j", "p", "g">>, <<"J", "P", "G">>, <<"j", "p", "e", "g">>,
     <<"J", "p", "e", "G">>, <<"j", "p">>, <<"p", "n", "g">>,
     <<"t", "i", "f">>, <<"t", "x", "t">>, <<>>}

DateFiles ==
    {File(FileName("a", ext), exif, t, <<1>>) :
        ext \in DateExtensions,
        exif \in {GoodExif, BadExif, NoField, NoContainer},
        t \in MTimes}

InitDate ==
    /\ source_kind = "dir"
    /\ target_kind = "dir"
    /\ files \in {<<f>> : f \in DateFiles}
    /\ target = EmptyTarget
    /\ dirs = {}
    /\ pc = "start"
    /\ exit_code = -1
    /\ pos = 1
    /\ summary = SummaryInit
    /\ rendered = 0
    /\ log = <<>>
    /\ calls = <<>>
    /\ start = EmptyTarget
    /\ run = 1
    /\ history = <<>>
    /\ injected = 0
    /\ planned = <<>>

SpecDate == InitDate /\ [][Next]_vars

\* the extension is jpg or jpeg in some spelling of upper and lower case
JpgOrJpeg(ext) ==
    LET spelled(word) ==
            /\ Len(ext) = Len(word)
            /\ \A i \in 1..Len(word) :
                  \E n \in 1..26 : /\ LowerCase[n] = word[i]
                                   /\ ext[i] \in {LowerCase[n], UpperCase[n]}
    IN  spelled(<<"j", "p", "g">>) \/ spelled(<<"j", "p", "e", "g">>)

\* the file holds a DateTimeOriginal that reads and parses
EmbeddedDateReads(f) ==
    /\ f.exif.readable
    /\ f.exif.fields # <<>>
    /\ ParseExifDate(f.exif.fields[1]).ok

\* C14: the embedded date is used exactly for a file whose extension is jpg
\* or jpeg in any case and whose embedded date reads and parses, whatever
\* the modification time; every other file resolves to the UTC date of its
\* modification time; resolution fails only when the modification time is
\* needed and unreadable, and then the entry is marked error and nothing is
\* written for it.
C14_DatePrecedence ==
    [][(/\ Handling
        /\ pos' = pos + 1
        /\ ~Walk[pos].is_dir
        /\ "walk" \notin LastFaults(log'))
       => LET f == Walk[pos].file
              faults == LastFaults(log')
              embedded == JpgOrJpeg(f.name.ext) /\ EmbeddedDateReads(f)
              v == f.exif.fields[1]
              resolved == get_file_date(f, faults)
              dest == get_target_path(f.name, resolved.date, TargetRoot)
          IN  /\ embedded
                 => /\ "mtime" \notin faults
                    /\ \A F \in {{}, {"mtime"}} :
                          get_file_date(f, F) =
                             [ok |-> TRUE, date |-> NaiveDate(v.year, v.month, v.day)]
              /\ (~embedded /\ "mtime" \notin faults)
                 => /\ resolved.ok
                    /\ DaysFromCivil(resolved.date) = f.mtime \div 86400
                    /\ resolved.date.day
                          \in 1..DaysInMonth(resolved.date.year, resolved.date.month)
              /\ ~resolved.ok <=> (~embedded /\ "mtime" \in faults)
              /\ ~resolved.ok
                 => /\ LastCls = "error"
                    /\ summary' = mark_error(summary, Walk[pos].path)
                    /\ target' = target
                    /\ dirs' = dirs
              /\ (resolved.ok /\ LastCls = "copied")
                 => /\ dest \in DOMAIN target'
                    /\ target'[dest] = f.data
      ]_vars

\* a.JPG with an embedded date of 2008-05-30 and a modification time of
\* 2022-01-06 was copied to the day of the embedded date
C14_Witness ==
    /\ files = <<File(FileName("a", <<"J", "P", "G">>), GoodExif, 1641495779, <<1>>)>>
    /\ run = 1
    /\ pc = "done"
    /\ log[2].cls = "copied"
    /\ DOMAIN target =
          {<<TargetRoot, <<"2", "0", "0", "8">>, "May", <<"3", "0">>,
             FileName("a", <<"J", "P", "G">>)>>}

\* the entries handled so far in this run that were classified `cls`
Classed(cls) == {k \in 1..Len(log) : log[k].cls = cls}

\* C15: the paths of errored_files and of duplicate_files are those of the
\* entries classified error and duplicate, in the order of the walk: when
\* entry A is discovered before entry B and both are in one list, A's path
\* precedes B's in the list and in the lines display() prints for the
\* section.  (copy_files appends nothing to exif_errored_files.)
C15_DiscoveryOrder ==
    \A counter \in {"error", "duplicate"} :
       LET list == ListOf(summary, counter)
           out == display(summary)
       IN  /\ list = PathsOf(Classed(counter), 1)
           /\ list # <<>> => Shown(out, summary, counter)
           /\ \A a, b \in Classed(counter) :
                 a < b
                 => /\ \E i, j \in 1..Len(list) :
                          i < j /\ list[i] = Walk[a].path /\ list[j] = Walk[b].path
                    /\ \E i, j \in PathLinesAt(out) :
                          /\ i < j
                          /\ out[i].path = Walk[a].path
                          /\ out[j].path = Walk[b].path
                          /\ \A h \in i..j : h \in PathLinesAt(out)

\* two files could not be copied: both are listed, the first found first
C15_Witness ==
    /\ pc = "done"
    /\ Len(files) = 3
    /\ Classed("error") = {2, 6}
    /\ summary.errored_files =
          <<<<SourceRoot, JpgName>>, <<SourceRoot, SubDirNames[3], JpgName>>>>
    /\ Len(summary.duplicate_files) = 1

\* the counter and the list a Summary operation is for
OwnCounter(op) ==
    CASE op = "mark_scan_error" -> "scan_error"
      [] op = "mark_error" -> "error"
      [] op = "mark_skipped" -> "skipped"
      [] op = "mark_duplicate" -> "duplicate"
      [] op = "mark_exif_error" -> "exif_error"
      [] op = "mark_copied" -> "copy"
      [] OTHER -> "none"

\* the operation of this step, when the step is a call of the Summary's API
ApiCall == calls' # calls /\ calls'[Len(calls')] # "literal"

\* C16: a mark_* operation increases its own counter by one and no other
\* counter; it appends at most one path, at the end of its own list, and
\* changes no other list; only mark_copied changes copied_bytes, by adding
\* to it; only set_duration changes the duration, and it changes nothing
\* else.  So no counter decreases and no list loses or reorders a path.
C16_SinglePurpose ==
    [][ApiCall
       => LET op == calls'[Len(calls')]
          IN  /\ calls' = Append(calls, op)
              /\ \A c \in SectionCounters \cup {"copy"} :
                    CounterOf(summary', c) =
                       CounterOf(summary, c) + (IF c = OwnCounter(op) THEN 1 ELSE 0)
              /\ \A c \in {"error", "duplicate", "exif_error"} :
                    LET old == ListOf(summary, c)
                        new == ListOf(summary', c)
                    IN  IF c = OwnCounter(op)
                        THEN /\ Len(new) = Len(old) + 1
                             /\ \A i \in 1..Len(old) : new[i] = old[i]
                        ELSE new = old
              /\ summary'.copied_bytes >= summary.copied_bytes
              /\ op # "mark_copied" => summary'.copied_bytes = summary.copied_bytes
              /\ op # "set_duration" => summary'.duration = summary.duration
              /\ DOMAIN summary' = DOMAIN summary
      ]_vars

\* after mark_copied(1), mark_duplicate, mark_error and mark_exif_error
C16_Witness ==
    /\ pc = "api"
    /\ calls # <<>> /\ calls[1] # "literal"
    /\ Len(calls) = MaxMarks
    /\ summary.copy_count = 1 /\ summary.copied_bytes = 1
    /\ Len(summary.duplicate_files) = 1
    /\ Len(summary.errored_files) = 1
    /\ Len(summary.exif_errored_files) = 1

\* by how much this step increased a counter
Increase(c) == CounterOf(summary', c) - CounterOf(summary, c)

\* the four counters of an entry's terminal classification
Terminal == {"copy", "skipped", "duplicate", "error"}

\* the sum of the counters `cs` of a Summary
RECURSIVE SumOf(_, _)
SumOf(s, cs) ==
    IF cs = {} THEN 0
    ELSE LET c == CHOOSE x \in cs : TRUE
         IN  CounterOf(s, c) + SumOf(s, cs \ {c})

\* C17: every enumerated entry that is no directory increments exactly one
\* of copy_count, skipped_count, duplicate_count and error_count; a walk
\* error increments scan_error_count only; a directory increments nothing.
\* When the walk ends the four counters add up to the number of entries
\* that are no directory, and scan_error_count is the number of walk errors.
C17_OneClassification ==
    [][/\ (Handling /\ pos' = pos + 1)
          => LET faults == LastFaults(log')
             IN  IF "walk" \in faults
                 THEN /\ Increase("scan_error") = 1
                      /\ \A c \in Terminal : Increase(c) = 0
                 ELSE IF Walk[pos].is_dir
                 THEN \A c \in Terminal \cup {"scan_error"} : Increase(c) = 0
                 ELSE /\ Increase("scan_error") = 0
                      /\ \A c \in Terminal : Increase(c) \in {0, 1}
                      /\ Cardinality({c \in Terminal : Increase(c) = 1}) = 1
       /\ (pc = "walk" /\ pc' = "done")
          => /\ SumOf(summary', Terminal) =
                   Cardinality({k \in 1..Len(log) :
                                   ~Walk[k].is_dir /\ "walk" \notin log[k].faults})
             /\ summary'.scan_error_count =
                   Cardinality({k \in 1..Len(log) : "walk" \in log[k].faults})
      ]_vars

\* the Summary was made by Summary::init() and the operations of its API
FromInit == calls = <<>> \/ calls[1] # "literal"

\* C18: in every Summary reached from Summary::init() by mark_* and
\* set_duration operations, error_count is the length of errored_files,
\* duplicate_count that of duplicate_files and exif_error_count that of
\* exif_errored_files.
C18_CountersMatchLists ==
    FromInit
    => /\ summary.error_count = Len(summary.errored_files)
       /\ summary.duplicate_count = Len(summary.duplicate_files)
       /\ summary.exif_error_count = Len(summary.exif_errored_files)

\* after mark_error, mark_duplicate, mark_exif_error and set_duration
C18_Witness ==
    /\ pc = "api"
    /\ FromInit
    /\ Len(calls) = MaxMarks
    /\ calls[MaxMarks] = "set_duration"
    /\ summary.error_count = 1
    /\ summary.duplicate_count = 1
    /\ summary.exif_error_count = 1
    /\ summary.duration = 1

\* C19: a run only adds directories and files to the target: a file that is
\* in the target, from before the run or made by it, keeps its path and its
\* content for the rest of the run, and the source files are left as they
\* are.
C19_WriteOnce ==
    [][/\ \A p \in DOMAIN target : p \in DOMAIN target' /\ target'[p] = target[p]
       /\ dirs \subseteq dirs'
       /\ files' = files
      ]_vars

=============================================================================
